---- MODULE Spec2Model ----
(***************************************************************************)
(* Model of the Brad agent service: the AgentRunner session registry       *)
(* (src/Brad/agent_runner.py) and the HTTP handlers that drive it          *)
(* (src/Brad/fastapi_app.py).                                              *)
(*                                                                         *)
(* Identifiers (user ids, session ids, registry keys) are sequences of     *)
(* one-character strings, so that the f-string key construction, the      *)
(* startswith filter and split('_', 1) are modelled character by           *)
(* character.  Response texts are sequences of text pieces: an f-string    *)
(* is the concatenation of its pieces.                                     *)
(*                                                                         *)
(* Requests are served by tasks of a cooperative scheduler: a task runs    *)
(* without interruption up to its next await on the external engine        *)
(* (create_session, the async-for over run_async), so every action below   *)
(* is the code between two consecutive awaits.                             *)
(***************************************************************************)
EXTENDS Integers, Sequences, FiniteSets, TLC

(* ---------------------------- bounds ----------------------------------- *)
MaxSessions == 2

(* ---------------------------- values ----------------------------------- *)
NoneVal == <<"None">>

U1 == <<"u", "1">>
U1Session == <<"u", "1", "_", "s", "e", "s", "s", "i", "o", "n">>
SessionU1_2 == <<"s", "e", "s", "s", "i", "o", "n", "_", "u", "1", "_", "2">>
U1_2 == <<"u", "1", "_", "2">>

Tasks == {"t1", "t2"}
UserIds == {U1, U1Session}
SessionIds == {SessionU1_2, U1_2}
ErrorTexts == {"boom"}

default_user_id == <<"a", "p", "i", "_", "u", "s", "e", "r">>

SessionPrefix == <<"s", "e", "s", "s", "i", "o", "n", "_">>
Underscore == <<"_">>

FallbackText == <<"Agent did not produce a final response.">>
SorryPrefix == <<"Sorry, I encountered an error: ">>
EscalatedPrefix == <<"Agent escalated: ">>
NoSpecificMessage == <<"No specific message.">>

(* ---------------------------- strings ---------------------------------- *)
Digit(d) ==
  CASE d = 0 -> "0" [] d = 1 -> "1" [] d = 2 -> "2" [] d = 3 -> "3"
    [] d = 4 -> "4" [] d = 5 -> "5" [] d = 6 -> "6" [] d = 7 -> "7"
    [] d = 8 -> "8" [] d = 9 -> "9"

RECURSIVE IntToStr(_)
IntToStr(n) ==
  IF n < 10 THEN <<Digit(n)>> ELSE IntToStr(n \div 10) \o <<Digit(n % 10)>>

StartsWith(s, p) ==
  /\ Len(p) <= Len(s)
  /\ SubSeq(s, 1, Len(p)) = p

FirstUnderscore(s) ==
  CHOOSE i \in 1 .. Len(s) : s[i] = "_" /\ \A j \in 1 .. (i - 1) : s[j] # "_"

SplitAfterFirst(s) == SubSeq(s, FirstUnderscore(s) + 1, Len(s))

(* ---------------------------- state ------------------------------------ *)
(* sessions, runners: the two dicts of AgentRunner, keyed by session_key.   *)
(* pc and the per-task variables: where each request is suspended and the  *)
(* locals of run_agent / chat_with_brad it holds there.                    *)
(* resp: what the latest step handed back or logged (the HTTP response,    *)
(* whether run_agent returned or raised, the logger line of                *)
(* prepare_session/run_agent, how the event stream stopped); a step that   *)
(* hands nothing back resets it.                                           *)
VARIABLES sessions, runners,
          pc, user_id, request_sid, session_id, runner,
          final_response_text, resp

vars == <<sessions, runners,
          pc, user_id, request_sid, session_id, runner,
          final_response_text, resp>>

locals == <<user_id, request_sid, session_id, runner, final_response_text>>

(* The Angelina tool adapter (src/Angelina/angelina/tools.py) is a separate *)
(* program.  files: the names of the files it has written to local storage; *)
(* tool_result: the record its latest call returned; prompt_hash: the       *)
(* process's hash() of each prompt; pid: os.getpid().                       *)
VARIABLES files, tool_result, prompt_hash, pid

image == <<files, tool_result, prompt_hash, pid>>

all_vars == <<vars, image>>

Prompts == {"cat", "dog", "owl"}
Sizes == {"1024x1024", "16:9"}
HashValues == {-1, 7, 1007}
Pids == {4242}
HashModulus == 1000

NoToolResult == [status |-> "none", filename |-> <<>>, message |-> <<>>]

NoResp ==
  [op |-> "none", status |-> "none", run_agent |-> "none", log |-> "none",
   stream |-> "none", result |-> <<>>,
   user_id |-> NoneVal, session_id |-> NoneVal, response |-> <<>>,
   active_sessions |-> {}]

BradInit ==
  /\ sessions = <<>>
  /\ runners = <<>>
  /\ pc = [t \in Tasks |-> "idle"]
  /\ user_id = [t \in Tasks |-> NoneVal]
  /\ request_sid = [t \in Tasks |-> NoneVal]
  /\ session_id = [t \in Tasks |-> NoneVal]
  /\ runner = [t \in Tasks |-> NoneVal]
  /\ final_response_text = [t \in Tasks |-> NoneVal]
  /\ resp = NoResp

ImageIdle ==
  /\ files = {}
  /\ tool_result = NoToolResult
  /\ prompt_hash = [p \in Prompts |-> 7]
  /\ pid = 4242

Init == BradInit /\ ImageIdle

(* ---------------------------- engine events ---------------------------- *)
PartsVals == {<<>>, <<"hi", "more">>, <<"None">>}

ContentVals ==
  {[present |-> FALSE, parts |-> <<>>]}
    \cup {[present |-> TRUE, parts |-> p] : p \in PartsVals}

ErrorMessages == {"None", "", "boom"}

FinalEvents ==
  [final : {TRUE}, content : ContentVals, escalate : BOOLEAN,
   error_message : ErrorMessages]

PartialEvents ==
  [final : {FALSE}, content : {[present |-> TRUE, parts |-> <<"hi">>]},
   escalate : BOOLEAN, error_message : {"None", "boom"}]

Events == FinalEvents \cup PartialEvents

(* ---------------------------- AgentRunner ------------------------------ *)
SynthId_PerUser(u, n) ==
  SessionPrefix \o u \o Underscore
    \o IntToStr(Cardinality({k \in DOMAIN sessions : sessions[k].user_id = u}) + 1)

SynthId_CountsInFlight(u, n) ==
  SessionPrefix \o u \o Underscore
    \o IntToStr(n + Cardinality({x \in Tasks : pc[x] = "creating"}) + 1)

SynthId(u, n) == SessionPrefix \o u \o Underscore \o IntToStr(n + 1)

SessionKey(u, s) == u \o Underscore \o s

ResolveSessionId(u, s) ==
  IF s = NoneVal THEN SynthId(u, Cardinality(DOMAIN sessions)) ELSE s

ResolveUser(u) == IF u = NoneVal THEN default_user_id ELSE u

UserSessions(u) ==
  {SplitAfterFirst(k) : k \in {key \in DOMAIN sessions : StartsWith(key, u \o Underscore)}}

ErrorOrDefault_OnlyNone(e) ==
  IF e.error_message = "None" THEN NoSpecificMessage ELSE <<e.error_message>>

ErrorOrDefault(e) ==
  IF e.error_message \in {"None", ""} THEN NoSpecificMessage ELSE <<e.error_message>>

FinalResponseText_EmptyOnNeither(cur, e) ==
  IF e.content.present /\ e.content.parts # <<>>
    THEN <<e.content.parts[1]>>
    ELSE IF e.escalate
           THEN EscalatedPrefix \o ErrorOrDefault(e)
           ELSE <<"">>

FinalResponseText(cur, e) ==
  IF e.content.present /\ e.content.parts # <<>>
    THEN <<e.content.parts[1]>>
    ELSE IF e.escalate
           THEN EscalatedPrefix \o ErrorOrDefault(e)
           ELSE cur

OnEvent_IgnoresFinal(cur, e) == FinalResponseText(cur, e)

OnEvent(cur, e) == IF e.final THEN FinalResponseText(cur, e) ELSE cur

ChatSessionId(u, s) ==
  IF s = NoneVal THEN SessionPrefix \o u \o Underscore \o <<"1">> ELSE s

(* ---------------------------- task plumbing ---------------------------- *)
Finish(t, r) ==
  /\ resp' = r
  /\ pc' = [pc EXCEPT ![t] = "idle"]
  /\ user_id' = [user_id EXCEPT ![t] = NoneVal]
  /\ request_sid' = [request_sid EXCEPT ![t] = NoneVal]
  /\ session_id' = [session_id EXCEPT ![t] = NoneVal]
  /\ runner' = [runner EXCEPT ![t] = NoneVal]
  /\ final_response_text' = [final_response_text EXCEPT ![t] = NoneVal]

Await(t, where, lg, u, s, sid, rn) ==
  /\ pc' = [pc EXCEPT ![t] = where]
  /\ user_id' = [user_id EXCEPT ![t] = u]
  /\ request_sid' = [request_sid EXCEPT ![t] = s]
  /\ session_id' = [session_id EXCEPT ![t] = sid]
  /\ runner' = [runner EXCEPT ![t] = rn]
  /\ final_response_text' =
       [final_response_text EXCEPT ![t] = IF where = "running" THEN FallbackText ELSE NoneVal]
  /\ resp' = [NoResp EXCEPT !.log = lg]

Http500(lg, ra, detail) ==
  [NoResp EXCEPT !.op = "chat", !.status = "http500", !.run_agent = ra,
                 !.log = lg,
                 !.response = <<"Failed to process chat request: ">> \o detail]

ChatResponse(lg, u, s, text) ==
  IF text = NoneVal
    THEN [Http500(lg, "returned", <<"validation error">>) EXCEPT !.result = text]
    ELSE [NoResp EXCEPT !.op = "chat", !.status = "success",
                        !.run_agent = "returned", !.log = lg, !.result = text,
                        !.user_id = u, !.session_id = s, !.response = text]

Prepared(t, lg, u, s, sid, rns) ==
  Await(t, "running", lg, u, s, sid, rns[SessionKey(u, sid)])

Raised(t, msg) ==
  Finish(t, Http500("Failed to create session", "raised", <<msg>>))

Returned(t, lg, how, text) ==
  Finish(t, [ChatResponse(lg, user_id[t],
                          ChatSessionId(user_id[t], request_sid[t]), text)
               EXCEPT !.stream = how])

(* ---------------------------- operations ------------------------------- *)
Creating == Cardinality({x \in Tasks : pc[x] = "creating"})

prepare_session_NoReuse(t, u, s) ==
  LET sid == ResolveSessionId(u, s)
  IN  /\ Cardinality(DOMAIN sessions) + Creating < MaxSessions
      /\ Await(t, "creating", "none", u, s, sid, NoneVal)

(* prepare_session up to its first await: the id, the key and the lookup.  *)
(* A known key returns at once and the caller goes on to the turn; a new   *)
(* key suspends in create_session.  New keys are admitted while stored     *)
(* plus in-flight sessions stay below MaxSessions.                         *)
prepare_session(t, u, s) ==
  LET sid == ResolveSessionId(u, s)
      key == SessionKey(u, sid)
  IN  IF key \in DOMAIN sessions
        THEN Prepared(t, "Using existing session", u, s, sid, runners)
        ELSE /\ Cardinality(DOMAIN sessions) + Creating < MaxSessions
             /\ Await(t, "creating", "none", u, s, sid, NoneVal)

run_agent(t, u, s) == prepare_session(t, ResolveUser(u), s)

chat_with_brad(t, u, s) ==
  /\ pc[t] = "idle"
  /\ run_agent(t, u, s)
  /\ UNCHANGED <<sessions, runners>>
  /\ UNCHANGED image

(* A Session or Runner object is named by the key it is made for and the   *)
(* number of objects made for that key so far: two constructions never     *)
(* share a name, as two constructor calls never return the same object.    *)
NewObject(objs, key) ==
  [key |-> key, gen |-> IF key \in DOMAIN objs THEN objs[key].obj.gen + 1 ELSE 1]

NewSession(t) ==
  [user_id |-> user_id[t], id |-> session_id[t],
   obj |-> NewObject(sessions, SessionKey(user_id[t], session_id[t]))]

NewRunner_Shared(t) == [obj |-> [key |-> <<>>, gen |-> 1]]

NewRunner(t) ==
  [obj |-> NewObject(runners, SessionKey(user_id[t], session_id[t]))]

create_session_returns(t) ==
  /\ pc[t] = "creating"
  /\ LET key == SessionKey(user_id[t], session_id[t])
     IN  /\ sessions' = (key :> NewSession(t)) @@ sessions
         /\ runners' = (key :> NewRunner(t)) @@ runners
         /\ Prepared(t, "Session created", user_id[t], request_sid[t],
                     session_id[t], runners')
  /\ UNCHANGED image

create_session_raises_PartialInsert(t, msg) ==
  /\ pc[t] = "creating"
  /\ sessions' = (SessionKey(user_id[t], session_id[t]) :> NewSession(t)) @@ sessions
  /\ Raised(t, msg)
  /\ UNCHANGED runners
  /\ UNCHANGED image

create_session_raises(t, msg) ==
  /\ pc[t] = "creating"
  /\ Raised(t, msg)
  /\ UNCHANGED <<sessions, runners>>
  /\ UNCHANGED image

run_async_yields_NoBreak(t, e) ==
  /\ pc[t] = "running"
  /\ final_response_text' = [final_response_text EXCEPT ![t] = OnEvent(@, e)]
  /\ resp' = NoResp
  /\ UNCHANGED <<pc, user_id, request_sid, session_id, runner>>
  /\ UNCHANGED <<sessions, runners>>
  /\ UNCHANGED image

run_async_yields(t, e) ==
  /\ pc[t] = "running"
  /\ IF e.final
       THEN Returned(t, "Agent Response", "final", OnEvent(final_response_text[t], e))
       ELSE /\ final_response_text' =
                 [final_response_text EXCEPT ![t] = OnEvent(@, e)]
            /\ resp' = NoResp
            /\ UNCHANGED <<pc, user_id, request_sid, session_id, runner>>
  /\ UNCHANGED <<sessions, runners>>
  /\ UNCHANGED image

run_async_ends(t) ==
  /\ pc[t] = "running"
  /\ Returned(t, "Agent Response", "exhausted", final_response_text[t])
  /\ UNCHANGED <<sessions, runners>>
  /\ UNCHANGED image

run_async_raises(t, msg) ==
  /\ pc[t] = "running"
  /\ Returned(t, "Error running agent", "raised", SorryPrefix \o <<msg>>)
  /\ UNCHANGED <<sessions, runners>>
  /\ UNCHANGED image

get_session_info(u) ==
  /\ resp' = [NoResp EXCEPT !.op = "sessions", !.status = "success",
                            !.user_id = u, !.active_sessions = UserSessions(u)]
  /\ UNCHANGED <<sessions, runners, pc, locals>>
  /\ UNCHANGED image

delete_session_Removes(u, s) ==
  /\ resp' = [NoResp EXCEPT !.op = "delete", !.status = "success",
                            !.user_id = u, !.session_id = s,
                            !.response = <<"Session deleted">>]
  /\ sessions' = [k \in DOMAIN sessions \ {SessionKey(u, s)} |-> sessions[k]]
  /\ runners' = [k \in DOMAIN runners \ {SessionKey(u, s)} |-> runners[k]]
  /\ UNCHANGED <<pc, locals>>
  /\ UNCHANGED image

delete_session(u, s) ==
  /\ resp' = [NoResp EXCEPT !.op = "delete", !.status = "success",
                            !.user_id = u, !.session_id = s,
                            !.response = <<"Session deletion not yet implemented">>]
  /\ UNCHANGED <<sessions, runners, pc, locals>>
  /\ UNCHANGED image

Next ==
  \/ \E t \in Tasks, u \in UserIds, s \in SessionIds \cup {NoneVal} : chat_with_brad(t, u, s)
  \/ \E t \in Tasks : create_session_returns(t)
  \/ \E t \in Tasks, msg \in ErrorTexts : create_session_raises(t, msg)
  \/ \E t \in Tasks, e \in Events : run_async_yields(t, e)
  \/ \E t \in Tasks : run_async_ends(t)
  \/ \E t \in Tasks, msg \in ErrorTexts : run_async_raises(t, msg)
  \/ \E u \in UserIds : get_session_info(u)
  \/ \E u \in UserIds, s \in SessionIds : delete_session(u, s)

Spec == Init /\ [][Next]_all_vars

(* ---------------------------- tool adapter ----------------------------- *)
(* What the image endpoint and the imaging library do in one call of       *)
(* generate_image.  raises: the text of the exception generate_content     *)
(* throws, "" when it returns.  candidates: the response; a candidate has  *)
(* a content object or None, and its parts are "text" (inline_data is      *)
(* None), "empty" (inline data without bytes), "junk" (bytes that are no   *)
(* image) or "png".  save_raises: the text of the exception image.save     *)
(* throws, "" when it succeeds; left: whether a failed save leaves a file. *)
PartKinds == {"text", "empty", "junk", "png"}

PartLists == {<<>>} \cup {<<k>> : k \in PartKinds} \cup {<<"text", "png">>}

Candidates ==
  {[has_content |-> FALSE, parts |-> <<>>]} \cup [has_content : {TRUE}, parts : PartLists]

ToolReplies ==
  {[raises |-> "quota", candidates |-> <<>>, save_raises |-> "", left |-> FALSE]}
    \cup [raises : {""}, candidates : {<<>>} \cup {<<c>> : c \in Candidates},
          save_raises : {""}, left : {FALSE}]
    \cup [raises : {""}, candidates : {<<[has_content |-> TRUE, parts |-> <<"png">>]>>},
          save_raises : {"disk full"}, left : BOOLEAN]

ToolErrorPrefix == <<"An internal error occurred during image generation: ">>

NoImageMessage == <<"Image generation failed: No image data returned.">>

Filename(p) ==
  <<"generated_image_">> \o IntToStr(pid) \o <<"_">>
    \o IntToStr(prompt_hash[p] % HashModulus) \o <<".png">>

ToolError(msg, written) ==
  [result |-> [status |-> "error", filename |-> <<>>, message |-> msg],
   written |-> written]

ToolCaught(text, written) == ToolError(ToolErrorPrefix \o <<text>>, written)

ToolSuccess(fn) ==
  [result |-> [status |-> "success", filename |-> fn,
               message |-> <<"Image generated and saved as ">> \o fn
                             \o <<". Inform the user.">>],
   written |-> {fn}]

ToolOutcome_UncaughtAttributeError(p, r) ==
  IF r.raises # ""
    THEN ToolCaught(r.raises, {})
    ELSE [result |-> [status |-> "raised", filename |-> <<>>,
                      message |-> <<"'NoneType' object has no attribute 'data'">>],
          written |-> {}]

ToolOutcome_SavesPlaceholder(p, r) ==
  IF r.raises # ""
    THEN ToolCaught(r.raises, {})
    ELSE ToolError(NoImageMessage, {Filename(p)})

ToolOutcome(p, r) ==
  IF r.raises # ""
    THEN ToolCaught(r.raises, {})
  ELSE IF r.candidates = <<>>
    THEN ToolError(NoImageMessage, {})
  ELSE IF ~r.candidates[1].has_content
    THEN ToolCaught("'NoneType' object has no attribute 'parts'", {})
  ELSE IF r.candidates[1].parts = <<>>
    THEN ToolError(NoImageMessage, {})
  ELSE IF r.candidates[1].parts[1] = "text"
    THEN ToolCaught("'NoneType' object has no attribute 'data'", {})
  ELSE IF r.candidates[1].parts[1] \in {"empty", "junk"}
    THEN ToolCaught("cannot identify image file", {})
  ELSE IF r.save_raises # ""
    THEN ToolCaught(r.save_raises, IF r.left THEN {Filename(p)} ELSE {})
  ELSE ToolSuccess(Filename(p))

generate_image(p, size, r) ==
  /\ tool_result' = ToolOutcome(p, r).result
  /\ files' = files \cup ToolOutcome(p, r).written
  /\ UNCHANGED <<prompt_hash, pid>>
  /\ UNCHANGED vars

ImageInit ==
  /\ BradInit
  /\ files = {}
  /\ tool_result = NoToolResult
  /\ prompt_hash \in [Prompts -> HashValues]
  /\ pid \in Pids

ImageNext ==
  \E p \in Prompts, size \in Sizes, r \in ToolReplies : generate_image(p, size, r)

ImageSpec == ImageInit /\ [][ImageNext]_all_vars

(* ---------------------------- properties ------------------------------- *)
OwnedIds(u) ==
  {sessions[k].id : k \in {x \in DOMAIN sessions : sessions[x].user_id = u}}

DigitChars == <<"1", "2", "3", "4", "5", "6", "7", "8", "9">>

(* C1: prepare_session with an explicit session id returns that id on the  *)
(* first call and on a second call; once the first call has stored the     *)
(* key, a second call with the same pair reuses the stored Runner, asks    *)
(* the engine for nothing and leaves sessions and runners as they were.    *)
C1_Idempotent ==
  [][\A t \in Tasks :
       /\ \A u \in UserIds, s \in SessionIds :
            chat_with_brad(t, u, s) =>
              /\ session_id'[t] = s
              /\ SessionKey(u, s) \in DOMAIN sessions =>
                   /\ pc'[t] = "running"
                   /\ resp'.log = "Using existing session"
                   /\ runner'[t] = runners[SessionKey(u, s)]
                   /\ sessions' = sessions
                   /\ runners' = runners
       /\ create_session_returns(t) =>
            /\ session_id'[t] = session_id[t]
            /\ SessionKey(user_id[t], session_id[t]) \in DOMAIN sessions'
    ]_all_vars

C1_Witness ==
  /\ resp.log = "Using existing session"
  /\ \E t \in Tasks :
       /\ pc[t] = "running"
       /\ request_sid[t] \in SessionIds
       /\ session_id[t] = request_sid[t]
       /\ sessions[SessionKey(user_id[t], session_id[t])].obj.gen = 1

(* C2: get_session_info(u) lists exactly the session ids ensured for user  *)
(* u: the ids of the sessions stored for u, including the session of every *)
(* turn now running for u, and no id or key fragment of another user.      *)
C2_ListExact ==
  /\ \A u \in UserIds : UserSessions(u) = OwnedIds(u)
  /\ \A t \in Tasks :
       pc[t] = "running" => session_id[t] \in UserSessions(user_id[t])

(* C3: run_agent never raises: whenever the engine fails while a turn is   *)
(* served (session creation or the event stream raises), run_agent returns *)
(* a string that begins with "Sorry, I encountered an error:".             *)
C3_RunAgentNeverRaises ==
  (resp.op = "chat" /\ (resp.log = "Failed to create session" \/ resp.stream = "raised"))
    => /\ resp.run_agent = "returned"
       /\ StartsWith(resp.response, SorryPrefix)

(* C4: with concurrent first-time calls for one composite key, the engine  *)
(* is asked to create the session at most once (no two create_session      *)
(* requests for the key are in flight) and at most one Runner is ever      *)
(* created for the key.                                                    *)
C4_SingleCreation ==
  /\ \A t1, t2 \in Tasks :
       ( /\ pc[t1] = "creating"
         /\ pc[t2] = "creating"
         /\ SessionKey(user_id[t1], session_id[t1]) = SessionKey(user_id[t2], session_id[t2]) )
         => t1 = t2
  /\ \A k \in DOMAIN runners : runners[k].obj.gen = 1

(* C5: sessions and runners always have the same keys, and no Runner       *)
(* object is bound to two keys.                                            *)
C5_OneRunnerPerSession ==
  /\ DOMAIN sessions = DOMAIN runners
  /\ \A k1, k2 \in DOMAIN runners : runners[k1] = runners[k2] => k1 = k2

C5_Witness == Cardinality(DOMAIN runners) >= 2

(* C6: when session creation fails inside prepare_session, the error       *)
(* propagates to the caller and sessions and runners are left unchanged.   *)
C6_FailedCreationLeavesRegistry ==
  [][resp'.log = "Failed to create session" =>
       /\ resp'.run_agent = "raised"
       /\ sessions' = sessions
       /\ runners' = runners
    ]_all_vars

C6_Witness ==
  /\ resp.log = "Failed to create session"
  /\ resp.run_agent = "raised"
  /\ DOMAIN sessions # {}

(* C7: the session_id of every successful POST /chat response is the id of *)
(* the session in which the turn was run.                                  *)
C7_ResponseNamesSession ==
  [][\A t \in Tasks :
       (pc[t] = "running" /\ pc'[t] = "idle" /\ resp'.op = "chat" /\ resp'.status = "success")
         => resp'.session_id = session_id[t]
    ]_all_vars

(* C8: when the event stream ends with no event marked final, run_agent    *)
(* returns exactly "Agent did not produce a final response.".              *)
C8_NoFinalEventFallback ==
  [][\A t \in Tasks :
       run_async_ends(t) =>
         /\ resp'.run_agent = "returned"
         /\ resp'.response = <<"Agent did not produce a final response.">>
    ]_all_vars

C8_Witness ==
  /\ resp.stream = "exhausted"
  /\ resp.response = <<"Agent did not produce a final response.">>

(* C9: with session_id omitted, prepare_session uses "session_" + userId + *)
(* "_" + (N + 1), N being the number of registry entries of all users at   *)
(* the call; on an empty registry user u1 gets "session_u1_1".             *)
C9_SynthesizedId ==
  [][\A t \in Tasks, u \in UserIds :
       chat_with_brad(t, u, NoneVal) =>
         LET sid == session_id'[t]
             n == Cardinality(DOMAIN sessions)
         IN  /\ Len(sid) = 8 + Len(u) + 2
             /\ SubSeq(sid, 1, 8) = <<"s", "e", "s", "s", "i", "o", "n", "_">>
             /\ SubSeq(sid, 9, 8 + Len(u)) = u
             /\ sid[9 + Len(u)] = "_"
             /\ sid[10 + Len(u)] = DigitChars[n + 1]
             /\ (n = 0 /\ u = U1) =>
                  sid = <<"s", "e", "s", "s", "i", "o", "n", "_", "u", "1", "_", "1">>
    ]_all_vars

C9_Witness ==
  \E t \in Tasks :
    /\ pc[t] = "creating"
    /\ request_sid[t] = NoneVal
    /\ user_id[t] = U1
    /\ session_id[t] = SessionU1_2
    /\ OwnedIds(U1) = {}
    /\ Cardinality(DOMAIN sessions) = 1

(* C10: DELETE /sessions/{userId}/{sessionId} acknowledges and leaves the  *)
(* registry unchanged; a session stored for u1 is still listed for u1.     *)
C10_DeleteIsStub ==
  [][resp'.op = "delete" =>
       /\ resp'.status = "success"
       /\ sessions' = sessions
       /\ runners' = runners
       /\ \A s \in SessionIds :
            SessionKey(U1, s) \in DOMAIN sessions => s \in UserSessions(U1)'
    ]_all_vars

C10_Witness ==
  /\ resp.op = "delete"
  /\ resp.user_id = U1
  /\ SessionKey(resp.user_id, resp.session_id) \in DOMAIN sessions
  /\ resp.session_id \in UserSessions(U1)

NoImageData(r) ==
  /\ r.raises = ""
  /\ \A i \in 1 .. Len(r.candidates) :
       \/ ~r.candidates[i].has_content
       \/ \A j \in 1 .. Len(r.candidates[i].parts) :
            r.candidates[i].parts[j] \in {"text", "empty"}

Contains(msg, text) == \E i \in 1 .. Len(msg) : msg[i] = text

(* C11: when the endpoint's response carries no image data, generate_image *)
(* returns a record with status "error" and writes no file.                *)
C11_NoImageNoFile ==
  [][\A p \in Prompts, size \in Sizes, r \in ToolReplies :
       (generate_image(p, size, r) /\ NoImageData(r)) =>
         /\ tool_result'.status = "error"
         /\ files' = files
    ]_all_vars

C11_Witness ==
  /\ tool_result.status = "error"
  /\ tool_result.message = <<"Image generation failed: No image data returned.">>
  /\ files # {}

(* C12: generate_image never raises; an exception thrown by the image      *)
(* call, by decoding its result or by saving it comes back as a record     *)
(* with status "error" whose message contains the exception text.          *)
C12_ToolNeverRaises ==
  [][\A p \in Prompts, size \in Sizes, r \in ToolReplies :
       generate_image(p, size, r) =>
         /\ tool_result'.status \in {"success", "error"}
         /\ r.raises # "" =>
              /\ tool_result'.status = "error"
              /\ Contains(tool_result'.message, r.raises)
         /\ (r.raises = "" /\ r.candidates # <<>> /\ r.candidates[1].has_content
               /\ r.candidates[1].parts # <<>>) =>
              LET part == r.candidates[1].parts[1]
              IN  /\ part = "text" =>
                       /\ tool_result'.status = "error"
                       /\ Contains(tool_result'.message,
                                   "'NoneType' object has no attribute 'data'")
                  /\ part \in {"empty", "junk"} =>
                       /\ tool_result'.status = "error"
                       /\ Contains(tool_result'.message, "cannot identify image file")
                  /\ (part = "png" /\ r.save_raises # "") =>
                       /\ tool_result'.status = "error"
                       /\ Contains(tool_result'.message, r.save_raises)
    ]_all_vars

C12_Witness ==
  /\ tool_result.status = "error"
  /\ Contains(tool_result.message, "disk full")
  /\ files # {}

CarriesContent(e) == e.content.present /\ e.content.parts # <<>>

(* C13: the result of a turn is determined by the first final event: a     *)
(* non-final event leaves the pending result as it was and the turn goes   *)
(* on; the first final event fixes the result from that event alone and    *)
(* ends the turn, so that no later event is consumed.                      *)
C13_FirstFinalDecides ==
  [][\A t \in Tasks, e \in Events :
       run_async_yields(t, e) =>
         IF e.final
           THEN /\ pc'[t] = "idle"
                /\ resp'.stream = "final"
                /\ resp'.result =
                     IF CarriesContent(e) THEN <<e.content.parts[1]>>
                     ELSE IF e.escalate
                            THEN <<"Agent escalated: ">> \o
                                   (IF e.error_message \in {"None", ""}
                                      THEN <<"No specific message.">>
                                      ELSE <<e.error_message>>)
                            ELSE <<"Agent did not produce a final response.">>
           ELSE /\ pc'[t] = "running"
                /\ final_response_text'[t] = final_response_text[t]
                /\ final_response_text[t] = <<"Agent did not produce a final response.">>
                /\ resp'.op = "none"
    ]_all_vars

C13_Witness ==
  /\ resp.stream = "final"
  /\ resp.status = "success"
  /\ resp.result = <<"hi">>
  /\ \E t \in Tasks : pc[t] = "running"

(* C14 as stated: on the final event, content gives the text of the first  *)
(* content part, also when escalation is set; otherwise escalation gives   *)
(* "Agent escalated: " followed by the event's error message, or by "No    *)
(* specific message." when the error message is absent.                    *)
C14_AsStated ==
  [][\A t \in Tasks, e \in FinalEvents :
       run_async_yields(t, e) =>
         /\ CarriesContent(e) => resp'.result = <<e.content.parts[1]>>
         /\ (~CarriesContent(e) /\ e.escalate) =>
              resp'.result =
                IF e.error_message = "None"
                  THEN <<"Agent escalated: ", "No specific message.">>
                  ELSE <<"Agent escalated: ", e.error_message>>
    ]_all_vars

(* C14: on the final event, content gives the text of the first content    *)
(* part, also when escalation is set; otherwise escalation gives "Agent    *)
(* escalated: " followed by the event's error message, or by "No specific  *)
(* message." when the error message is absent or empty.                    *)
C14_ContentThenEscalation ==
  [][\A t \in Tasks, e \in FinalEvents :
       run_async_yields(t, e) =>
         /\ CarriesContent(e) => resp'.result = <<e.content.parts[1]>>
         /\ (~CarriesContent(e) /\ e.escalate) =>
              resp'.result =
                IF e.error_message = "None" \/ e.error_message = ""
                  THEN <<"Agent escalated: ", "No specific message.">>
                  ELSE <<"Agent escalated: ", e.error_message>>
    ]_all_vars

C14_Witness ==
  /\ resp.stream = "final"
  /\ resp.result = <<"Agent escalated: ", "No specific message.">>

(* C15: a key stored in the registry stays stored, bound to the same       *)
(* session handle and the same Runner, through every later step.           *)
C15_EntriesNeverReplaced ==
  [][\A k \in DOMAIN sessions :
       /\ k \in DOMAIN sessions'
       /\ k \in DOMAIN runners'
       /\ sessions'[k] = sessions[k]
       /\ runners'[k] = runners[k]
    ]_all_vars

(* C16: a call for user u that omits the session id while another call for *)
(* u, also without an id, is suspended in create_session and the registry  *)
(* has the size that call read, synthesizes the same id and starts a       *)
(* second creation for it.                                                 *)
C16_ConcurrentSameSynthId ==
  [][\A t, t2 \in Tasks, u \in UserIds :
       ( /\ chat_with_brad(t, u, NoneVal)
         /\ pc[t2] = "creating"
         /\ user_id[t2] = u
         /\ request_sid[t2] = NoneVal
         /\ session_id[t2][Len(session_id[t2])]
              = DigitChars[Cardinality(DOMAIN sessions) + 1] )
       => /\ session_id'[t] = session_id[t2]
          /\ pc'[t] = "creating"
    ]_all_vars

C16_Witness ==
  \E t1, t2 \in Tasks :
    /\ t1 # t2
    /\ pc[t1] = "creating"
    /\ pc[t2] = "creating"
    /\ request_sid[t1] = NoneVal
    /\ request_sid[t2] = NoneVal
    /\ user_id[t1] = user_id[t2]
    /\ session_id[t1] = session_id[t2]

(* C17: a turn runs on the session of its own (userId, sessionId) pair:    *)
(* the session stored under the turn's key was created for the turn's user *)
(* and session id, never for a different pair.                             *)
C17_DistinctPairsDistinctSessions ==
  \A t \in Tasks :
    pc[t] = "running" =>
      LET key == SessionKey(user_id[t], session_id[t])
      IN  /\ key \in DOMAIN sessions
          /\ sessions[key].user_id = user_id[t]
          /\ sessions[key].id = session_id[t]

(* C18: with no other call in progress and only this user's sessions in    *)
(* the registry, each created once, a call that omits the session id       *)
(* creates a fresh session: the synthesized id is not the id of a session  *)
(* of that user, and a creation is started for it.                         *)
C18_OmittedIdIsFresh ==
  [][\A t \in Tasks, u \in UserIds :
       ( /\ chat_with_brad(t, u, NoneVal)
         /\ \A x \in Tasks : pc[x] = "idle"
         /\ \A k \in DOMAIN sessions :
              sessions[k].obj.gen = 1 /\ sessions[k].user_id = u )
       => /\ session_id'[t] \notin OwnedIds(u)
          /\ pc'[t] = "creating"
    ]_all_vars

(* C19: a final event with neither content nor escalation gives the        *)
(* fallback "Agent did not produce a final response.", as a stream without *)
(* a final event does; every result of a turn whose stream did not fail is *)
(* the first content part's text, an "Agent escalated: " string or the     *)
(* fallback.                                                               *)
C19_ThreeResults ==
  [][\A t \in Tasks :
       /\ \A e \in FinalEvents :
            run_async_yields(t, e) =>
              /\ (~CarriesContent(e) /\ ~e.escalate) =>
                   resp'.result = <<"Agent did not produce a final response.">>
              /\ \/ CarriesContent(e) /\ resp'.result = <<e.content.parts[1]>>
                 \/ /\ Len(resp'.result) = 2
                    /\ resp'.result[1] = "Agent escalated: "
                 \/ resp'.result = <<"Agent did not produce a final response.">>
       /\ run_async_ends(t) =>
            resp'.result = <<"Agent did not produce a final response.">>
    ]_all_vars

C19_Witness ==
  /\ resp.stream = "final"
  /\ resp.result = <<"Agent did not produce a final response.">>

====
